---- MODULE Spec2Model ----
(***************************************************************************)
(* Model of minimal-mixtral: the prompt builder shared by chat.py and      *)
(* parallel_solver.py, the interactive driver of chat.py and the two-round *)
(* batch pipeline of parallel_solver.py.                                   *)
(*                                                                         *)
(* A Python str is a sequence of one-character strings, so concatenation,  *)
(* " ".join, f-string formatting and the `in` substring test are computed  *)
(* character by character.  A Python list is a sequence.  A Python dict    *)
(* with string field names is a function whose DOMAIN is the set of keys   *)
(* present; the session store, whose iteration order matters, is a record  *)
(* of its keys in insertion order and the key -> session mapping.          *)
(***************************************************************************)
EXTENDS Integers, Sequences, FiniteSets, TLC

(***************************************************************************)
(* Bounds of the model.                                                    *)
(***************************************************************************)
\* longest user / bot message list handed to the prompt builder on its own
MaxMsgs == 2
\* longest user-message history of the interactive driver
MaxTurns == 3
\* most lines typed into one multi-line input
MaxLines == 2
\* most questions in questions.json
MaxQ == 2
\* most candidates the engine returns for one prompt
MaxCands == 2

(***************************************************************************)
(* Python str / list primitives.                                           *)
(***************************************************************************)
\* c * n for a one-character string c
Rep(c, n) == [i \in 1..n |-> c]

DigitChar == <<"0", "1", "2", "3", "4", "5", "6", "7", "8", "9">>

\* f"{i}" for a non-negative int
RECURSIVE IntToStr(_)
IntToStr(n) ==
    IF n < 10 THEN <<DigitChar[n + 1]>>
    ELSE IntToStr(n \div 10) \o <<DigitChar[(n % 10) + 1]>>

\* sep.join(parts)
RECURSIVE Join(_, _)
Join(sep, parts) ==
    IF Len(parts) = 0 THEN <<>>
    ELSE IF Len(parts) = 1 THEN parts[1]
    ELSE parts[1] \o sep \o Join(sep, Tail(parts))

\* sub in s, scanning the start positions from the left
RECURSIVE InFrom(_, _, _)
InFrom(sub, s, i) ==
    IF i + Len(sub) - 1 > Len(s) THEN FALSE
    ELSE IF SubSeq(s, i, i + Len(sub) - 1) = sub THEN TRUE
    ELSE InFrom(sub, s, i + 1)

In(sub, s) == InFrom(sub, s, 1)

\* d[k] = v on a dict with string keys
SetItem(d, k, v) == [x \in (DOMAIN d) \cup {k} |-> IF x = k THEN v ELSE d[x]]

\* all lists over S of length at most n
SeqsUpTo(S, n) == UNION {[1..k -> S] : k \in 0..n}

(***************************************************************************)
(* Prompt builder (the same function is defined in both files).            *)
(***************************************************************************)
BOS == <<"<", "s", ">">>
EOS == <<"<", "/", "s", ">">>
INST_START == <<"[", "I", "N", "S", "T", "]">>
INST_END == <<"[", "/", "I", "N", "S", "T", "]">>
SPACE == <<" ">>

\* the zip(user_messages, bot_messages) loop from pair i on: zip stops at the
\* shorter list
RECURSIVE ZipParts(_, _, _)
ZipParts(user_messages, bot_messages, i) ==
    IF i > Len(user_messages) \/ i > Len(bot_messages) THEN <<>>
    ELSE <<INST_START, user_messages[i], INST_END, bot_messages[i], EOS>>
         \o ZipParts(user_messages, bot_messages, i + 1)

\* faulty variant: the end-of-turn marker is left out of the paired turns
RECURSIVE ZipPartsNoEos(_, _, _)
ZipPartsNoEos(user_messages, bot_messages, i) ==
    IF i > Len(user_messages) \/ i > Len(bot_messages) THEN <<>>
    ELSE <<INST_START, user_messages[i], INST_END, bot_messages[i]>>
         \o ZipPartsNoEos(user_messages, bot_messages, i + 1)

build_conversation_prompt_noeos(user_messages, bot_messages) ==
    IF Len(user_messages) # Len(bot_messages) + 1
    THEN [raised |-> TRUE, error |-> "ValueError"]
    ELSE [raised |-> FALSE,
          value |-> Join(SPACE, <<BOS>> \o ZipPartsNoEos(user_messages, bot_messages, 1)
                        \o <<INST_START, user_messages[Len(user_messages)], INST_END>>)]

\* faulty variant: only a missing final user turn is rejected, a surplus one is not
build_conversation_prompt_lax(user_messages, bot_messages) ==
    IF Len(user_messages) < Len(bot_messages) + 1
    THEN [raised |-> TRUE, error |-> "ValueError"]
    ELSE [raised |-> FALSE,
          value |-> Join(SPACE, <<BOS>> \o ZipParts(user_messages, bot_messages, 1)
                        \o <<INST_START, user_messages[Len(user_messages)], INST_END>>)]

\* parallel_solver.py
build_conversation_prompt(user_messages, bot_messages) ==
    IF Len(user_messages) # Len(bot_messages) + 1
    THEN [raised |-> TRUE, error |-> "ValueError"]
    ELSE [raised |-> FALSE,
          value |-> Join(SPACE, <<BOS>> \o ZipParts(user_messages, bot_messages, 1)
                        \o <<INST_START, user_messages[Len(user_messages)], INST_END>>)]

\* chat.py
chat_build_conversation_prompt(user_messages, bot_messages) ==
    IF Len(user_messages) # Len(bot_messages) + 1
    THEN [raised |-> TRUE, error |-> "ValueError"]
    ELSE [raised |-> FALSE,
          value |-> Join(SPACE, <<BOS>> \o ZipParts(user_messages, bot_messages, 1)
                        \o <<INST_START, user_messages[Len(user_messages)], INST_END>>)]

(***************************************************************************)
(* State.                                                                  *)
(***************************************************************************)
VARIABLES
    \* a call of the prompt builder on its own
    pb_pc,          \* "call", then which copy returned: "solver" or "chat"
    pb_user,        \* argument user_messages
    pb_bot,         \* argument bot_messages
    pb_result,      \* what the call did: raised, or the prompt returned
    \* chat.py, the interactive driver
    chat_pc,        \* the statement the driver is at: "loop", "input", "dispatch",
                    \* "clear", "clear_bots", "continue", "exit", "break",
                    \* "append", "build", "generate", "replied", "except", or its end:
                    \* "exited", "crashed"
    user_messages,  \* the user turns so far
    bot_messages,   \* the bot turns so far
    lines,          \* multiline_input's list of the lines read so far
    user_message,   \* the input of the current turn
    prompt,         \* the prompt of the request in flight
    chat_exc,       \* the exception that ended the driver, "none" while it runs
    turn_user,      \* user_messages as it was when the current turn started
    turn_bot,       \* bot_messages as it was when the current turn started
    \* parallel_solver.py, the batch driver
    pc,             \* the next step of the loop body: "start", "round1", "format1",
                    \* "save1", "round2", "format2", "save2", or "crashed"
    sessions,       \* the session store
    prompts,        \* the prompts of the last generation call
    raw_answers,    \* what the last generation call returned
    files,          \* the files written: name -> contents
    exc             \* the exception that ended the driver, "none" while it runs

pb_vars == <<pb_pc, pb_user, pb_bot, pb_result>>

chat_vars == <<chat_pc, user_messages, bot_messages, lines, user_message, prompt,
               chat_exc, turn_user, turn_bot>>

batch_vars == <<pc, sessions, prompts, raw_answers, files, exc>>

vars == <<pb_vars, chat_vars, batch_vars>>

(***************************************************************************)
(* The prompt builder applied to every pair of short message lists.        *)
(***************************************************************************)
Hi == <<"H", "i">>
Hello == <<"H", "e", "l", "l", "o">>

\* the messages the lists are drawn from; the empty message is one of them
Msgs == {Hi, Hello, <<>>, <<"a", " ", "b">>}

PromptInit ==
    /\ pb_pc = "call"
    /\ pb_user \in SeqsUpTo(Msgs, MaxMsgs)
    /\ pb_bot \in SeqsUpTo(Msgs, MaxMsgs)
    /\ pb_result = [raised |-> FALSE, value |-> <<>>]

CallSolverBuilder ==
    /\ UNCHANGED <<chat_vars, batch_vars>>
    /\ pb_pc = "call"
    /\ pb_result' = build_conversation_prompt(pb_user, pb_bot)
    /\ pb_pc' = "solver"
    /\ UNCHANGED <<pb_user, pb_bot>>

CallChatBuilder ==
    /\ UNCHANGED <<chat_vars, batch_vars>>
    /\ pb_pc = "call"
    /\ pb_result' = chat_build_conversation_prompt(pb_user, pb_bot)
    /\ pb_pc' = "chat"
    /\ UNCHANGED <<pb_user, pb_bot>>

PromptNext == CallSolverBuilder \/ CallChatBuilder

(***************************************************************************)
(* chat.py: the interactive driver.                                        *)
(***************************************************************************)
CLEAR == <<"C", "L", "E", "A", "R">>
EXIT == <<"E", "X", "I", "T">>
NEWLINE == <<"\n">>

INITIAL_USER_MESSAGE ==
    <<"I"," ","a","m"," ","C","s","a","b","i",","," ","a"," ","D","P","h","i","l"," ","s","t",
      "u","d","e","n","t"," ","a","t"," ","O","x","f","o","r","d"," ","U","n","i","v","e","r",
      "s","i","t","y","."," ","I"," ","a","m"," ","i","n","t","e","r","v","i","e","w","i","n",
      "g"," ","y","o","u"," ","f","o","r"," ","a"," ","Q","u","a","n","t"," ","R","e","s","e",
      "a","r","c","h","e","r"," ","r","o","l","e"," ","a","n","d"," ","y","o","u"," ","w","i",
      "l","l"," ","h","a","v","e"," ","t","o"," ","p","r","o","v","i","d","e"," ","t","h","e",
      " ","s","o","l","u","t","i","o","n","s"," ","b","y"," ","t","h","i","n","k","i","n","g",
      " ","s","t","e","p"," ","b","y"," ","s","t","e","p","."," ","I"," ","r","e","p","e","a",
      "t",","," ","a","l","w","a","y","s"," ","p","l","a","n"," ","y","o","u","r"," ","s","o",
      "l","u","t","i","o","n"," ","s","t","e","p"," ","b","y"," ","s","t","e","p"," ","a","n",
      "d"," ","i","l","l","u","s","t","r","a","t","e"," ","y","o","u","r"," ","t","h","i","n",
      "k","i","n","g"," ","p","r","o","c","e","s","s"," ","w","i","t","h"," ","e","x","a","m",
      "p","l","e"," ","i","f"," ","a","p","p","l","i","c","a","b","l","e",".">>

INITIAL_BOT_MESSAGE ==
    <<"H","e","l","l","o",","," ","I"," ","a","m"," ","a"," ","c","h","a","t","b","o","t"," ",
      "u","s","i","n","g"," ","a"," ","f","i","n","e","t","u","n","e","d"," ","G","P","T","-",
      "4"," ","I","n","s","t","r","u","c","t"," ","b","a","s","e","l","i","n","e","."," ","I",
      " ","w","i","l","l"," ","b","e"," ","i","n","t","e","r","v","i","e","w","i","n","g"," ",
      "y","o","u"," ","f","o","r"," ","a"," ","Q","u","a","n","t"," ","R","e","s","e","a","r",
      "c","h","e","r"," ","r","o","l","e","."," ","I"," ","w","i","l","l"," ","a","s","s","i",
      "s","t"," ","y","o","u">>

\* the non-empty lines a user types
Lines == {Hi, <<"a", " ">> \o CLEAR, EXIT \o <<"!">>}

\* the texts the engine answers with
Replies == {<<"o", "k">>}

\* what multiline_input returns once the blank line is read
multiline_input(ls) == Join(NEWLINE, ls)

\* faulty variant: the control tokens are matched against the whole input
HandleInputWholeMatch(um) ==
    IF um = CLEAR THEN "clear"
    ELSE IF um = EXIT THEN "exit"
    ELSE "append"

\* the two tests on the returned input, in the order the loop body makes them:
\* the branch the body takes
HandleInput(um) ==
    IF In(CLEAR, um) THEN "clear"
    ELSE IF In(EXIT, um) THEN "exit"
    ELSE "append"

\* the positions of the loop the try block covers: a KeyboardInterrupt raised
\* there reaches the except clause
InsideTry == {"input", "dispatch", "clear", "clear_bots", "exit", "append", "build",
              "generate", "replied"}

\* the positions no try block covers: the loop's header and back-jump, the
\* continue and the break that leave the try block, and the except clause
OutsideTry == {"loop", "continue", "break", "except"}

ChatInit ==
    /\ chat_pc = "loop"
    /\ user_messages = <<INITIAL_USER_MESSAGE>>
    /\ bot_messages = <<INITIAL_BOT_MESSAGE>>
    /\ lines = <<>>
    /\ user_message = <<>>
    /\ prompt = <<>>
    /\ chat_exc = "none"
    /\ turn_user = <<INITIAL_USER_MESSAGE>>
    /\ turn_bot = <<INITIAL_BOT_MESSAGE>>

\* while True: the try block is entered and multiline_input is called
EnterTry ==
    /\ UNCHANGED <<pb_vars, batch_vars>>
    /\ chat_pc = "loop"
    /\ chat_pc' = "input"
    /\ UNCHANGED <<user_messages, bot_messages, lines, user_message, prompt, chat_exc,
                   turn_user, turn_bot>>

\* multiline_input reads one more non-empty line
ReadLine ==
    /\ UNCHANGED <<pb_vars, batch_vars>>
    /\ chat_pc = "input"
    /\ Len(lines) < MaxLines
    /\ \E line \in Lines : lines' = Append(lines, line)
    /\ UNCHANGED <<chat_pc, user_messages, bot_messages, user_message, prompt,
                   chat_exc, turn_user, turn_bot>>

\* multiline_input reads the blank line and returns the lines joined
ReadBlank ==
    /\ UNCHANGED <<pb_vars, batch_vars>>
    /\ chat_pc = "input"
    /\ user_message' = multiline_input(lines)
    /\ lines' = <<>>
    /\ chat_pc' = "dispatch"
    /\ UNCHANGED <<user_messages, bot_messages, prompt, chat_exc, turn_user, turn_bot>>

\* the control tokens are looked for and the branch is taken
Dispatch ==
    /\ UNCHANGED <<pb_vars, batch_vars>>
    /\ chat_pc = "dispatch"
    /\ chat_pc' = HandleInput(user_message)
    /\ UNCHANGED <<user_messages, bot_messages, lines, user_message, prompt, chat_exc,
                   turn_user, turn_bot>>

\* CLEAR: the notice is printed and user_messages is rebound to an empty list
ClearUsers ==
    /\ UNCHANGED <<pb_vars, batch_vars>>
    /\ chat_pc = "clear"
    /\ user_messages' = <<>>
    /\ chat_pc' = "clear_bots"
    /\ UNCHANGED <<bot_messages, lines, user_message, prompt, chat_exc, turn_user,
                   turn_bot>>

\* CLEAR: bot_messages is rebound to an empty list
ClearBots ==
    /\ UNCHANGED <<pb_vars, batch_vars>>
    /\ chat_pc = "clear_bots"
    /\ bot_messages' = <<>>
    /\ chat_pc' = "continue"
    /\ UNCHANGED <<user_messages, lines, user_message, prompt, chat_exc, turn_user,
                   turn_bot>>

\* CLEAR: continue leaves the try block for the head of the loop; the next
\* turn starts
ClearContinue ==
    /\ UNCHANGED <<pb_vars, batch_vars>>
    /\ chat_pc = "continue"
    /\ chat_pc' = "loop"
    /\ turn_user' = user_messages
    /\ turn_bot' = bot_messages
    /\ UNCHANGED <<user_messages, bot_messages, lines, user_message, prompt, chat_exc>>

\* EXIT: the notice is printed
ExitNotice ==
    /\ UNCHANGED <<pb_vars, batch_vars>>
    /\ chat_pc = "exit"
    /\ chat_pc' = "break"
    /\ UNCHANGED <<user_messages, bot_messages, lines, user_message, prompt, chat_exc,
                   turn_user, turn_bot>>

\* EXIT: break leaves the try block and the loop; the program ends
Break ==
    /\ UNCHANGED <<pb_vars, batch_vars>>
    /\ chat_pc = "break"
    /\ chat_pc' = "exited"
    /\ UNCHANGED <<user_messages, bot_messages, lines, user_message, prompt, chat_exc,
                   turn_user, turn_bot>>

\* the input is appended to user_messages
AppendUser ==
    /\ UNCHANGED <<pb_vars, batch_vars>>
    /\ chat_pc = "append"
    /\ Len(user_messages) < MaxTurns
    /\ user_messages' = Append(user_messages, user_message)
    /\ chat_pc' = "build"
    /\ UNCHANGED <<bot_messages, lines, user_message, prompt, chat_exc, turn_user,
                   turn_bot>>

\* the prompt is built from the two histories; the builder's ValueError is not
\* caught and ends the driver
BuildPrompt ==
    /\ UNCHANGED <<pb_vars, batch_vars>>
    /\ chat_pc = "build"
    /\ LET built == chat_build_conversation_prompt(user_messages, bot_messages)
       IN  IF built.raised
           THEN /\ chat_pc' = "crashed"
                /\ chat_exc' = built.error
                /\ prompt' = prompt
           ELSE /\ chat_pc' = "generate"
                /\ chat_exc' = chat_exc
                /\ prompt' = built.value
    /\ UNCHANGED <<user_messages, bot_messages, lines, user_message, turn_user,
                   turn_bot>>

\* the engine returns: the reply is printed and appended; the append returns
\* inside the try block
GenerateReturns ==
    /\ UNCHANGED <<pb_vars, batch_vars>>
    /\ chat_pc = "generate"
    /\ \E bot_message \in Replies : bot_messages' = Append(bot_messages, bot_message)
    /\ chat_pc' = "replied"
    /\ UNCHANGED <<user_messages, lines, user_message, prompt, chat_exc, turn_user,
                   turn_bot>>

\* the end of the try block: the loop jumps back to its head; the next turn
\* starts
LoopBack ==
    /\ UNCHANGED <<pb_vars, batch_vars>>
    /\ chat_pc = "replied"
    /\ chat_pc' = "loop"
    /\ turn_user' = user_messages
    /\ turn_bot' = bot_messages
    /\ UNCHANGED <<user_messages, bot_messages, lines, user_message, prompt, chat_exc>>

\* the engine raises: nothing but KeyboardInterrupt is caught
GenerateRaises ==
    /\ UNCHANGED <<pb_vars, batch_vars>>
    /\ chat_pc = "generate"
    /\ chat_pc' = "crashed"
    /\ chat_exc' = "EngineError"
    /\ UNCHANGED <<user_messages, bot_messages, lines, user_message, prompt,
                   turn_user, turn_bot>>

\* KeyboardInterrupt inside the try block, before the statement the driver is
\* at has taken effect: control goes to the except clause with the variables
\* as they are; the lines multiline_input had read are lost with its frame
InterruptCaught ==
    /\ UNCHANGED <<pb_vars, batch_vars>>
    /\ chat_pc \in InsideTry
    /\ chat_pc' = "except"
    /\ lines' = <<>>
    /\ UNCHANGED <<user_messages, bot_messages, user_message, prompt, chat_exc,
                   turn_user, turn_bot>>

\* KeyboardInterrupt outside the try block: nothing catches it and the driver
\* ends with it
InterruptUncaught ==
    /\ UNCHANGED <<pb_vars, batch_vars>>
    /\ chat_pc \in OutsideTry
    /\ chat_pc' = "crashed"
    /\ chat_exc' = "KeyboardInterrupt"
    /\ UNCHANGED <<user_messages, bot_messages, lines, user_message, prompt,
                   turn_user, turn_bot>>

\* the except clause: the notice is printed and continue goes to the head of
\* the loop; the next turn starts
Continue ==
    /\ UNCHANGED <<pb_vars, batch_vars>>
    /\ chat_pc = "except"
    /\ chat_pc' = "loop"
    /\ turn_user' = user_messages
    /\ turn_bot' = bot_messages
    /\ UNCHANGED <<user_messages, bot_messages, lines, user_message, prompt, chat_exc>>

ChatNext ==
    \/ EnterTry
    \/ ReadLine
    \/ ReadBlank
    \/ Dispatch
    \/ ClearUsers
    \/ ClearBots
    \/ ClearContinue
    \/ ExitNotice
    \/ Break
    \/ AppendUser
    \/ BuildPrompt
    \/ GenerateReturns
    \/ LoopBack
    \/ GenerateRaises
    \/ InterruptCaught
    \/ InterruptUncaught
    \/ Continue

(***************************************************************************)
(* parallel_solver.py: sessions, the two rounds, formatter, persistence.   *)
(***************************************************************************)
ANSWER_DASHES == 45
FINAL_DASHES == 43
HEADER_EQUALS == 100
SEPARATOR_TILDES == 10

QUESTION_PREFIX ==
    <<"Q","U","E","S","T","I","O","N",":"," ">>

OPTION_PREFIX ==
    <<"O","P","T","I","O","N"," ">>

INSTRUCTION_REASONING ==
    <<"\n","\n"," ","P","l","e","a","s","e"," ","p","r","o","v","i","d","e"," ","t","h","e"," ",
      "a","n","s","w","e","r"," ","a","n","d"," ","e","x","p","l","a","i","n"," ","y","o","u",
      "r"," ","r","e","a","s","o","n","i","n","g","!">>

INSTRUCTION_OPTIONS ==
    <<" ","I","f"," ","t","h","e","r","e"," ","a","r","e"," ","o","p","t","i","o","n","s"," ",
      "t","o"," ","c","h","o","o","s","e"," ","f","r","o","m",","," ","d","o"," ","n","o","t",
      " ","p","r","o","v","i","d","e"," ","a","n"," ","a","n","s","w","e","r"," ","d","i","f",
      "f","e","r","e","n","t"," ","f","r","o","m"," ","t","h","e"," ","o","p","t","i","o","n",
      "s",".","\n">>

ANSWER_LABEL ==
    <<"[","A","N","S","W","E","R"," ">>

FINAL_ANSWER_LABEL ==
    <<"[","F","I","N","A","L"," ","A","N","S","W","E","R","]">>

FINAL_INSTRUCTION ==
    <<"\n","\n","P","l","e","a","s","e"," ","p","r","o","v","i","d","e"," ","t","h","e"," ","C",
      "O","R","R","E","C","T"," ","f","i","n","a","l"," ","a","n","s","w","e","r"," ","b","a",
      "s","e","d"," ","o","n"," ","t","h","e"," ","q","u","e","s","t","i","o","n"," ","a","n",
      "d"," ","t","h","e"," ","i","n","d","e","p","e","n","d","e","n","t"," ","a","n","s","w",
      "e","r","s"," ","a","b","o","v","e","."," ","E","x","p","l","a","i","n"," ","w","h","y",
      " ","p","l","e","a","s","e","!","\n">>

HEADER_QUESTION ==
    <<"Q","u","e","s","t","i","o","n"," ","#">>

HEADER_ID ==
    <<" ","(","I","D">>

ANSWERS_TXT == "answers.txt"
ANSWERS_FINAL_TXT == "answers_final.txt"

\* an empty dict that keeps insertion order
EmptyDict == [keys |-> <<>>, map |-> <<>>]

\* d.values(), in insertion order
Values(d) == [i \in 1..Len(d.keys) |-> d.map[d.keys[i]]]

\* the i-th question of questions.json: its key (the keys are not in sorted
\* order) and its payload (every second question has options)
QuestionKey(i) == IntToStr((7 * i) % 10)

RawQuestion(i) ==
    IF i % 2 = 0
    THEN [question_text |-> IntToStr(i) \o <<"+">> \o IntToStr(i) \o <<"?">>,
          options |-> <<<<"3">>, <<"4">>>>]
    ELSE [question_text |-> IntToStr(i) \o <<"+">> \o IntToStr(i) \o <<"?">>]

\* json.load of a questions.json holding the first nq questions
QuestionsFile(nq) ==
    [keys |-> [i \in 1..nq |-> QuestionKey(i)],
     map |-> [k \in {QuestionKey(i) : i \in 1..nq} |->
                 RawQuestion(CHOOSE i \in 1..nq : QuestionKey(i) = k)]]

\* the "OPTION {opt_id}: {option}\n" lines from option i on (opt_id = i - 1)
RECURSIVE OptionLines(_, _)
OptionLines(options, i) ==
    IF i > Len(options) THEN <<>>
    ELSE OPTION_PREFIX \o IntToStr(i - 1) \o <<":", " ">> \o options[i] \o NEWLINE
         \o OptionLines(options, i + 1)

FormatQuestion(question) ==
    QUESTION_PREFIX \o question["question_text"] \o NEWLINE
    \o (IF "options" \in DOMAIN question THEN OptionLines(question["options"], 1)
        ELSE <<>>)
    \o INSTRUCTION_REASONING
    \o INSTRUCTION_OPTIONS

generate_sessions(raw_questions) ==
    [keys |-> raw_questions.keys,
     map |-> [k \in DOMAIN raw_questions.map |->
                 [question_raw |-> raw_questions.map[k],
                  question_formatted |-> FormatQuestion(raw_questions.map[k])]]]

\* The engine is outside the repository.  It either raises or returns one
\* result per prompt, in request order, each with the prompt it answers and its
\* candidates in order.  How many candidates it returns is the engine's
\* business (the code never looks at the count): choice.k of them, the same
\* for every prompt of the call.  A candidate's text names the request (its
\* position and its prompt's length) and the candidate's position.
EngineChoices ==
    {[raised |-> TRUE, k |-> 0]} \cup {[raised |-> FALSE, k |-> k] : k \in 0..MaxCands}

CandidateText(request, i, j) ==
    <<"p">> \o IntToStr(i) \o <<"n">> \o IntToStr(Len(request)) \o <<"c">> \o IntToStr(j)

llm_generate(requests, choice) ==
    IF choice.raised
    THEN [raised |-> TRUE, error |-> "EngineError"]
    ELSE [raised |-> FALSE,
          value |-> [i \in 1..Len(requests) |->
                        [prompt |-> requests[i],
                         outputs |-> [j \in 1..choice.k |->
                                         [text |-> CandidateText(requests[i], i, j)]]]]]

\* [raw_answer.text for raw_answer in result.outputs]
Texts(result) == [j \in 1..Len(result.outputs) |-> result.outputs[j].text]

\* the loop over enumerate(sessions.keys()) from position qid on: the session of
\* the qid-th key gets the texts of the qid-th result under `field`
RECURSIVE AttachLoop(_, _, _, _, _)
AttachLoop(map, keys, raw, field, qid) ==
    IF qid > Len(keys) THEN map
    ELSE AttachLoop([map EXCEPT ![keys[qid]] = SetItem(@, field, Texts(raw[qid]))],
                    keys, raw, field, qid + 1)

\* faulty variant: the results are read from the far end
RECURSIVE AttachLoopReversed(_, _, _, _, _)
AttachLoopReversed(map, keys, raw, field, qid) ==
    IF qid > Len(keys) THEN map
    ELSE AttachLoopReversed(
             [map EXCEPT ![keys[qid]] = SetItem(@, field, Texts(raw[Len(keys) + 1 - qid]))],
             keys, raw, field, qid + 1)

attach_answers_reversed(store, raw) ==
    [keys |-> store.keys, map |-> AttachLoopReversed(store.map, store.keys, raw, "answers", 1)]

attach_answers(store, raw) ==
    [keys |-> store.keys, map |-> AttachLoop(store.map, store.keys, raw, "answers", 1)]

\* faulty variant: round 2 stores its results under round 1's key
attach_final_answers_as_answers(store, raw) ==
    [keys |-> store.keys, map |-> AttachLoop(store.map, store.keys, raw, "answers", 1)]

attach_final_answers(store, raw) ==
    [keys |-> store.keys, map |-> AttachLoop(store.map, store.keys, raw, "final_answers", 1)]

\* the prompts of a round: one build_conversation_prompt call per session, the
\* given text as the only user turn and no bot turn
BuildPrompts(texts) ==
    [i \in 1..Len(texts) |-> build_conversation_prompt(<<texts[i]>>, <<>>)]

AnyRaised(built) == \E i \in 1..Len(built) : built[i].raised

round1_texts(store) ==
    [i \in 1..Len(store.keys) |-> Values(store)[i]["question_formatted"]]

\* faulty variant: the results that arrived before the failure are attached
answer_batch_questions_partial(store, choice) ==
    LET built == BuildPrompts(round1_texts(store))
        requests == [i \in 1..Len(built) |-> built[i].value]
        partial == llm_generate(requests, [raised |-> FALSE, k |-> 1]).value
        r == llm_generate(requests, choice)
    IN  IF r.raised
        THEN [raised |-> TRUE, error |-> r.error, sessions |-> attach_answers(store, partial),
              prompts |-> requests, raw_answers |-> <<>>]
        ELSE [raised |-> FALSE, error |-> "none", sessions |-> attach_answers(store, r.value),
              prompts |-> requests, raw_answers |-> r.value]

\* round 1: what the call leaves behind, given what the engine does
answer_batch_questions(store, choice) ==
    LET built == BuildPrompts(round1_texts(store))
    IN  IF AnyRaised(built)
        THEN [raised |-> TRUE, error |-> "ValueError", sessions |-> store,
              prompts |-> <<>>, raw_answers |-> <<>>]
        ELSE LET requests == [i \in 1..Len(built) |-> built[i].value]
                 r == llm_generate(requests, choice)
             IN  IF r.raised
                 THEN [raised |-> TRUE, error |-> r.error, sessions |-> store,
                       prompts |-> requests, raw_answers |-> <<>>]
                 ELSE [raised |-> FALSE, error |-> "none",
                       sessions |-> attach_answers(store, r.value),
                       prompts |-> requests, raw_answers |-> r.value]

\* prompt_text of round 2 for one session
FinalPromptText(session) ==
    session["formatted_output"] \o NEWLINE \o Rep("~", SEPARATOR_TILDES) \o FINAL_INSTRUCTION

round2_texts(store) ==
    [i \in 1..Len(store.keys) |-> FinalPromptText(Values(store)[i])]

\* round 2
answer_batch_questions_final(store, choice) ==
    LET built == BuildPrompts(round2_texts(store))
    IN  IF AnyRaised(built)
        THEN [raised |-> TRUE, error |-> "ValueError", sessions |-> store,
              prompts |-> <<>>, raw_answers |-> <<>>]
        ELSE LET requests == [i \in 1..Len(built) |-> built[i].value]
                 r == llm_generate(requests, choice)
             IN  IF r.raised
                 THEN [raised |-> TRUE, error |-> r.error, sessions |-> store,
                       prompts |-> requests, raw_answers |-> <<>>]
                 ELSE [raised |-> FALSE, error |-> "none",
                       sessions |-> attach_final_answers(store, r.value),
                       prompts |-> requests, raw_answers |-> r.value]

\* the "[ANSWER {i}]" blocks from answer i on (label i - 1)
RECURSIVE AnswerBlocks(_, _)
AnswerBlocks(answers, i) ==
    IF i > Len(answers) THEN <<>>
    ELSE Rep("-", ANSWER_DASHES) \o ANSWER_LABEL \o IntToStr(i - 1) \o <<"]">>
         \o Rep("-", ANSWER_DASHES) \o NEWLINE \o answers[i] \o <<"\n", "\n", "\n">>
         \o AnswerBlocks(answers, i + 1)

\* faulty variant: the labels count from 1
RECURSIVE AnswerBlocksFromOne(_, _)
AnswerBlocksFromOne(answers, i) ==
    IF i > Len(answers) THEN <<>>
    ELSE Rep("-", ANSWER_DASHES) \o ANSWER_LABEL \o IntToStr(i) \o <<"]">>
         \o Rep("-", ANSWER_DASHES) \o NEWLINE \o answers[i] \o <<"\n", "\n", "\n">>
         \o AnswerBlocksFromOne(answers, i + 1)

\* the "[FINAL ANSWER]" blocks from final answer i on
RECURSIVE FinalBlocks(_, _)
FinalBlocks(final_answers, i) ==
    IF i > Len(final_answers) THEN <<>>
    ELSE Rep("-", FINAL_DASHES) \o FINAL_ANSWER_LABEL \o Rep("-", FINAL_DASHES) \o NEWLINE
         \o final_answers[i] \o <<"\n", "\n", "\n">>
         \o FinalBlocks(final_answers, i + 1)

FormatOneFromOne(session) ==
    session["question_formatted"] \o <<"\n", "\n", "\n">>
    \o AnswerBlocksFromOne(session["answers"], 1)
    \o (IF "final_answers" \in DOMAIN session
        THEN FinalBlocks(session["final_answers"], 1) ELSE <<>>)

\* the formatted_output of one session
FormatOne(session) ==
    session["question_formatted"] \o <<"\n", "\n", "\n">>
    \o AnswerBlocks(session["answers"], 1)
    \o (IF "final_answers" \in DOMAIN session
        THEN FinalBlocks(session["final_answers"], 1) ELSE <<>>)

\* faulty variant: a session that already has a transcript keeps it
format_session_outputs_cached(store) ==
    [keys |-> store.keys,
     map |-> [k \in DOMAIN store.map |->
                 IF "formatted_output" \in DOMAIN store.map[k] THEN store.map[k]
                 ELSE SetItem(store.map[k], "formatted_output", FormatOne(store.map[k]))]]

format_session_outputs(store) ==
    [keys |-> store.keys,
     map |-> [k \in DOMAIN store.map |->
                 SetItem(store.map[k], "formatted_output", FormatOne(store.map[k]))]]

\* what save_file writes from the qid-th session on (the header counts from 0)
RECURSIVE FileBlocks(_, _)
FileBlocks(store, qid) ==
    IF qid > Len(store.keys) THEN <<>>
    ELSE Rep("=", HEADER_EQUALS) \o NEWLINE
         \o HEADER_QUESTION \o IntToStr(qid - 1) \o HEADER_ID \o store.keys[qid]
         \o <<")", "\n">>
         \o Rep("=", HEADER_EQUALS) \o NEWLINE
         \o store.map[store.keys[qid]]["formatted_output"] \o <<"\n", "\n", "\n">>
         \o FileBlocks(store, qid + 1)

\* open(filename, "w") and the writes: the file holds exactly what was written
save_file(store, filename, fs) == SetItem(fs, filename, FileBlocks(store, 1))

BatchInit ==
    /\ pc = "start"
    /\ sessions = EmptyDict
    /\ prompts = <<>>
    /\ raw_answers = <<>>
    /\ files = <<>>
    /\ exc = "none"

\* enter is pressed: questions.json is loaded and the sessions are generated
Start ==
    /\ pc = "start"
    /\ \E nq \in 0..MaxQ : sessions' = generate_sessions(QuestionsFile(nq))
    /\ pc' = "round1"
    /\ UNCHANGED <<prompts, raw_answers, files, exc>>
    /\ UNCHANGED <<pb_vars, chat_vars>>

\* answer_batch_questions(sessions, n=7, best_of=10)
Round1 ==
    /\ pc = "round1"
    /\ \E choice \in EngineChoices :
          LET r == answer_batch_questions(sessions, choice)
          IN  /\ sessions' = r.sessions
              /\ prompts' = r.prompts
              /\ raw_answers' = IF r.raised THEN raw_answers ELSE r.raw_answers
              /\ exc' = r.error
              /\ pc' = IF r.raised THEN "crashed" ELSE "format1"
    /\ UNCHANGED files
    /\ UNCHANGED <<pb_vars, chat_vars>>

Format1 ==
    /\ pc = "format1"
    /\ sessions' = format_session_outputs(sessions)
    /\ pc' = "save1"
    /\ UNCHANGED <<prompts, raw_answers, files, exc>>
    /\ UNCHANGED <<pb_vars, chat_vars>>

Save1 ==
    /\ pc = "save1"
    /\ files' = save_file(sessions, ANSWERS_TXT, files)
    /\ pc' = "round2"
    /\ UNCHANGED <<sessions, prompts, raw_answers, exc>>
    /\ UNCHANGED <<pb_vars, chat_vars>>

\* answer_batch_questions_final(sessions, n=1, best_of=3)
Round2 ==
    /\ pc = "round2"
    /\ \E choice \in EngineChoices :
          LET r == answer_batch_questions_final(sessions, choice)
          IN  /\ sessions' = r.sessions
              /\ prompts' = r.prompts
              /\ raw_answers' = IF r.raised THEN raw_answers ELSE r.raw_answers
              /\ exc' = r.error
              /\ pc' = IF r.raised THEN "crashed" ELSE "format2"
    /\ UNCHANGED files
    /\ UNCHANGED <<pb_vars, chat_vars>>

Format2 ==
    /\ pc = "format2"
    /\ sessions' = format_session_outputs(sessions)
    /\ pc' = "save2"
    /\ UNCHANGED <<prompts, raw_answers, files, exc>>
    /\ UNCHANGED <<pb_vars, chat_vars>>

\* the second save ends the loop body: the loop starts over
Save2 ==
    /\ pc = "save2"
    /\ files' = save_file(sessions, ANSWERS_FINAL_TXT, files)
    /\ pc' = "start"
    /\ UNCHANGED <<sessions, prompts, raw_answers, exc>>
    /\ UNCHANGED <<pb_vars, chat_vars>>

Next ==
    \/ Start
    \/ Round1
    \/ Format1
    \/ Save1
    \/ Round2
    \/ Format2
    \/ Save2

(***************************************************************************)
(* Specifications.                                                         *)
(***************************************************************************)
PromptIdle ==
    /\ pb_pc = "idle"
    /\ pb_user = <<>>
    /\ pb_bot = <<>>
    /\ pb_result = [raised |-> FALSE, value |-> <<>>]

\* the batch driver
Init == BatchInit /\ ChatInit /\ PromptIdle

Spec == Init /\ [][Next]_vars

\* a call of the prompt builder
PromptSpecInit == PromptInit /\ ChatInit /\ BatchInit

PromptSpec == PromptSpecInit /\ [][PromptNext]_vars

\* the interactive driver
ChatSpecInit == ChatInit /\ PromptIdle /\ BatchInit

ChatSpec == ChatSpecInit /\ [][ChatNext]_vars

(***************************************************************************)
(* The properties.  Their helpers are written from the properties' words:  *)
(* texts are spelled out with their spaces and newlines in place, and      *)
(* substrings are found by position.                                       *)
(***************************************************************************)
StartsWith(s, pre) == Len(pre) <= Len(s) /\ SubSeq(s, 1, Len(pre)) = pre

EndsWith(s, suf) == Len(suf) <= Len(s) /\ SubSeq(s, Len(s) - Len(suf) + 1, Len(s)) = suf

\* the positions at which pat occurs in s
Occ(pat, s) == {p \in 1..(Len(s) - Len(pat) + 1) : SubSeq(s, p, p + Len(pat) - 1) = pat}

HasSub(pat, s) == Occ(pat, s) # {}

\* the concatenation of a list of texts
RECURSIVE Concat(_)
Concat(ts) == IF Len(ts) = 0 THEN <<>> ELSE Concat(SubSeq(ts, 1, Len(ts) - 1)) \o ts[Len(ts)]

TEXT_BOS ==
    <<"<","s",">">>

TEXT_OPEN ==
    <<" ","[","I","N","S","T","]"," ">>

TEXT_CLOSE_MID ==
    <<" ","[","/","I","N","S","T","]"," ">>

TEXT_EOS ==
    <<" ","<","/","s",">">>

TEXT_CLOSE_END ==
    <<" ","[","/","I","N","S","T","]">>

TEXT_HI_PROMPT ==
    <<"<","s",">"," ","[","I","N","S","T","]"," ","H","i"," ","[","/","I","N","S","T","]">>

\* "<s>", then " [INST] u [/INST] b </s>" for every answered turn, then
\* " [INST] u [/INST]" for the last user message
ExpectedPrompt(users, bots) ==
    TEXT_BOS
    \o Concat([i \in 1..Len(bots) |->
                  TEXT_OPEN \o users[i] \o TEXT_CLOSE_MID \o bots[i] \o TEXT_EOS])
    \o TEXT_OPEN \o users[Len(users)] \o TEXT_CLOSE_END

PromptCalled == pb_pc \in {"solver", "chat"}

\* C1: for user and bot lists with len(U) = len(B) + 1 both copies of the
\* prompt builder return "<s>", the answered turns in order, each as [INST] u
\* [/INST] b </s>, and the last user message as [INST] u [/INST], single-space
\* joined: the prompt starts with "<s>", ends with the last user message and
\* " [/INST]", and for U = ["Hi"], B = [] it is "<s> [INST] Hi [/INST]".
C1_PromptGrammar ==
    (PromptCalled /\ Len(pb_user) = Len(pb_bot) + 1) =>
        /\ ~pb_result.raised
        /\ pb_result.value = ExpectedPrompt(pb_user, pb_bot)
        /\ StartsWith(pb_result.value, TEXT_BOS)
        /\ EndsWith(pb_result.value, pb_user[Len(pb_user)] \o TEXT_CLOSE_END)
        /\ ~EndsWith(pb_result.value, TEXT_EOS)
        /\ (pb_user = <<Hi>> /\ pb_bot = <<>> => pb_result.value = TEXT_HI_PROMPT)

\* a prompt with an answered turn and a final user message was returned
C1_Witness ==
    /\ pb_pc = "solver"
    /\ pb_user = <<Hi, <<"a", " ", "b">>>>
    /\ pb_bot = <<Hello>>
    /\ ~pb_result.raised

\* C2: for user and bot lists with len(U) # len(B) + 1 both copies of the
\* prompt builder raise the validation error and return no prompt.
C2_InvalidRaises ==
    (PromptCalled /\ Len(pb_user) # Len(pb_bot) + 1) =>
        /\ pb_result.raised
        /\ pb_result.error = "ValueError"
        /\ "value" \notin DOMAIN pb_result

\* U = ["Hi"], B = ["Hello"] was rejected
C2_Witness ==
    /\ pb_pc = "chat"
    /\ pb_user = <<Hi>>
    /\ pb_bot = <<Hello>>
    /\ pb_result.raised

\* C3: when an interruption has been caught, the user and the bot messages are
\* what they were when the interrupted turn started.
C3_InterruptKeepsHistory ==
    chat_pc = "except" => (user_messages = turn_user /\ bot_messages = turn_bot)

\* C4: every history the interactive driver hands to the prompt builder has one
\* user turn more than bot turns, and the driver never raises the turn-count
\* validation error.
C4_DriverKeepsTurnInvariant ==
    /\ chat_pc = "build" => Len(user_messages) = Len(bot_messages) + 1
    /\ chat_exc # "ValueError"

\* the step that takes the branch for the returned input, or is cut short by
\* an interruption
InputHandled == chat_pc = "dispatch" /\ chat_pc' # "dispatch"

\* the positions of the clear branch, of the exit branch, and of a normal turn
ClearBranch == {"clear", "clear_bots", "continue"}
ExitBranch == {"exit", "break", "exited"}
TurnBranch == {"append", "build", "generate", "replied"}

\* a step on the clear branch stays on it, goes back to the head of the loop
\* or is interrupted; it empties a history or leaves it, and builds no prompt
ClearBranchStep ==
    chat_pc \in ClearBranch =>
        /\ chat_pc' \in ClearBranch \cup {"loop", "except", "crashed"}
        /\ chat_pc' = "crashed" => chat_exc' = "KeyboardInterrupt"
        /\ user_messages' \in {user_messages, <<>>}
        /\ bot_messages' \in {bot_messages, <<>>}
        /\ prompt' = prompt

\* a step on the exit branch stays on it or is interrupted, and changes
\* neither history nor the prompt
ExitBranchStep ==
    chat_pc \in ExitBranch =>
        /\ chat_pc' \in ExitBranch \cup {"except", "crashed"}
        /\ chat_pc' = "crashed" => chat_exc' = "KeyboardInterrupt"
        /\ UNCHANGED <<user_messages, bot_messages, prompt>>

\* what both readings of C6 say of the branches once taken: the clear branch
\* run to its end leaves both histories empty and goes back to the head of the
\* loop, the exit branch run to its end ends the program with the histories
\* untouched, an interruption being the only other way out; neither branch
\* appends the input or builds a prompt, and no input with a token is appended
\* or sent
BranchesDoTheirWork ==
    /\ [](chat_pc = "continue" => (user_messages = <<>> /\ bot_messages = <<>>))
    /\ [](chat_pc \in ExitBranch =>
             (user_messages = turn_user /\ bot_messages = turn_bot))
    /\ [](chat_pc \in TurnBranch =>
             (~HasSub(CLEAR, user_message) /\ ~HasSub(EXIT, user_message)))
    /\ [][ClearBranchStep]_vars
    /\ [][ExitBranchStep]_vars

\* the branch C6 as stated has an input take
StatedRouting ==
    InputHandled =>
        /\ HasSub(EXIT, user_message) => chat_pc' \in {"exit", "except"}
        /\ HasSub(CLEAR, user_message) => chat_pc' \in {"clear", "except"}

\* the branch an input takes when the clear token is looked for first
ClearFirstRouting ==
    InputHandled =>
        /\ HasSub(CLEAR, user_message) => chat_pc' \in {"clear", "except"}
        /\ (HasSub(EXIT, user_message) /\ ~HasSub(CLEAR, user_message)) =>
              chat_pc' \in {"exit", "except"}

\* C6 as stated: every input that contains the exit token takes the exit
\* branch, which ends the loop, and every input that contains the clear token
\* takes the clear branch, which empties both histories, whatever else the
\* input contains; such an input is not appended and no request is issued.
C6_TokensAlwaysRecognized ==
    [][StatedRouting]_vars /\ BranchesDoTheirWork

\* C6, amended: an input that contains the clear token takes the clear branch,
\* which empties both histories and goes on to the next input, also when the
\* input contains the exit token as well; an input that contains the exit
\* token and not the clear token takes the exit branch, which ends the loop
\* with both histories as they were.  In both cases the input is not appended
\* and no request is issued.  Only a KeyboardInterrupt takes the driver off
\* either branch.
C6_ClearBeforeExit ==
    [][ClearFirstRouting]_vars /\ BranchesDoTheirWork

\* an input with both tokens was handled: the clear branch ran to its continue
\* and both histories are empty
C6_Witness ==
    /\ chat_pc = "continue"
    /\ HasSub(CLEAR, user_message)
    /\ HasSub(EXIT, user_message)
    /\ user_messages = <<>>
    /\ bot_messages = <<>>

(***************************************************************************)
(* The batch pipeline's properties.                                        *)
(***************************************************************************)
SessionState(session) ==
    IF "final_answers" \in DOMAIN session
    THEN IF "answers" \in DOMAIN session THEN "FINALIZED" ELSE "SKIPPED"
    ELSE IF "answers" \in DOMAIN session THEN "ANSWERED" ELSE "CREATED"

StateRank(state) ==
    CASE state = "CREATED" -> 0
      [] state = "ANSWERED" -> 1
      [] state = "FINALIZED" -> 2
      [] OTHER -> 3

AllSessions(P(_)) == \A k \in DOMAIN sessions.map : P(sessions.map[k])

IsCreated(session) == SessionState(session) = "CREATED"
IsAnswered(session) == SessionState(session) = "ANSWERED"
IsFinalized(session) == SessionState(session) = "FINALIZED"
NotSkipped(session) == SessionState(session) # "SKIPPED"

\* C5: within an iteration every session is CREATED until round 1 has run,
\* ANSWERED from then until round 2 has run, FINALIZED from then on; no session
\* has final_answers without answers, and no step of the iteration removes a
\* session, moves one back or moves one two states ahead.
C5_SessionStateMachine ==
    /\ [](/\ AllSessions(NotSkipped)
          /\ pc = "round1" => AllSessions(IsCreated)
          /\ pc \in {"format1", "save1", "round2"} => AllSessions(IsAnswered)
          /\ pc \in {"format2", "save2"} => AllSessions(IsFinalized))
    /\ [][pc # "start" =>
             \A k \in DOMAIN sessions.map :
                /\ k \in DOMAIN sessions'.map
                /\ StateRank(SessionState(sessions'.map[k]))
                      >= StateRank(SessionState(sessions.map[k]))
                /\ StateRank(SessionState(sessions'.map[k]))
                      <= StateRank(SessionState(sessions.map[k])) + 1]_vars

\* round 2 has run over two sessions
C5_Witness ==
    /\ pc = "save2"
    /\ Len(sessions.keys) = 2
    /\ AllSessions(IsFinalized)

ANSWER_RULE == Rep("-", 45)
FINAL_RULE == Rep("-", 43)
BLOCK_END == <<"\n", "\n", "\n">>

AnswerDelimiter(i) == ANSWER_RULE \o ANSWER_LABEL \o IntToStr(i) \o <<"]">> \o ANSWER_RULE

FinalDelimiter == FINAL_RULE \o FINAL_ANSWER_LABEL \o FINAL_RULE

\* the question text, then one labelled block per answer, then one unlabelled
\* block per final answer
Transcript(question, answers, finals) ==
    question \o BLOCK_END
    \o Concat([i \in 1..Len(answers) |->
                  AnswerDelimiter(i - 1) \o NEWLINE \o answers[i] \o BLOCK_END])
    \o Concat([i \in 1..Len(finals) |->
                  FinalDelimiter \o NEWLINE \o finals[i] \o BLOCK_END])

FinalsOf(session) ==
    IF "final_answers" \in DOMAIN session THEN session["final_answers"] ELSE <<>>

\* the transcript of a session holds its question, exactly one delimiter per
\* answer, labelled 0..k-1 in order and followed by the answer, and after them
\* exactly one FINAL ANSWER delimiter per final answer
TranscriptWellFormed(session) ==
    LET out == session["formatted_output"]
        answers == session["answers"]
        finals == FinalsOf(session)
        at(i) == CHOOSE p \in Occ(AnswerDelimiter(i), out) : TRUE
    IN  /\ out = Transcript(session["question_formatted"], answers, finals)
        /\ StartsWith(out, session["question_formatted"])
        /\ Cardinality(Occ(ANSWER_LABEL, out)) = Len(answers)
        /\ \A i \in 0..(Len(answers) - 1) :
              /\ Cardinality(Occ(AnswerDelimiter(i), out)) = 1
              /\ i > 0 => at(i - 1) < at(i)
              /\ SubSeq(out, at(i) + Len(AnswerDelimiter(i)),
                        at(i) + Len(AnswerDelimiter(i)) + Len(answers[i + 1]))
                    = NEWLINE \o answers[i + 1]
        /\ Cardinality(Occ(FINAL_ANSWER_LABEL, out)) = Len(finals)
        /\ Cardinality(Occ(FinalDelimiter, out)) = Len(finals)
        /\ \A p \in Occ(ANSWER_LABEL, out) : \A f \in Occ(FINAL_ANSWER_LABEL, out) : p < f

\* C7: what format_session_outputs leaves in a session with k answers is the
\* question text and k ANSWER blocks labelled 0..k-1 in order, each with its
\* answer; it has no FINAL ANSWER block before round 2 has run, and after
\* round 2 one unlabelled FINAL ANSWER block per final answer, after all the
\* ANSWER blocks.
C7_TranscriptBlocks ==
    /\ pc \in {"save1", "save2"} => AllSessions(TranscriptWellFormed)
    /\ pc = "save1" =>
          \A k \in DOMAIN sessions.map :
              Occ(FINAL_ANSWER_LABEL, sessions.map[k]["formatted_output"]) = {}

\* a transcript with two answers and two final answers was rendered
C7_Witness ==
    /\ pc = "save2"
    /\ \E k \in DOMAIN sessions.map :
          /\ Len(sessions.map[k]["answers"]) = 2
          /\ Len(sessions.map[k]["final_answers"]) = 2
          /\ Cardinality(Occ(FINAL_ANSWER_LABEL, sessions.map[k]["formatted_output"])) = 2

\* a session's transcript is there and renders the candidates it has now
Fresh(session) ==
    /\ "formatted_output" \in DOMAIN session
    /\ session["formatted_output"]
          = Transcript(session["question_formatted"], session["answers"], FinalsOf(session))

FILE_RULE == Rep("=", 100)

\* one numbered header and transcript per session, in the store's order
ExpectedFile(store) ==
    Concat([i \in 1..Len(store.keys) |->
               FILE_RULE \o NEWLINE
               \o HEADER_QUESTION \o IntToStr(i - 1) \o HEADER_ID \o store.keys[i]
               \o <<")">> \o NEWLINE
               \o FILE_RULE \o NEWLINE
               \o Transcript(store.map[store.keys[i]]["question_formatted"],
                             store.map[store.keys[i]]["answers"],
                             FinalsOf(store.map[store.keys[i]]))
               \o BLOCK_END])

\* the round-2 prompt of a session: its round-1 transcript, the separator and
\* the instruction, as the only user turn
ExpectedFinalPrompt(session) ==
    TEXT_BOS \o TEXT_OPEN
    \o Transcript(session["question_formatted"], session["answers"], <<>>)
    \o NEWLINE \o Rep("~", 10) \o FINAL_INSTRUCTION
    \o TEXT_CLOSE_END

\* C8: when a file is about to be written and when round 2 is about to build
\* its prompts, every session's transcript exists and renders the session's
\* current candidates; answers.txt and the round-2 prompts hold the rendering
\* of the round-1 answers, answers_final.txt that of the answers and the
\* final answers.
C8_TranscriptNeverStale ==
    /\ pc \in {"save1", "round2", "save2"} => AllSessions(Fresh)
    /\ pc = "round2" => files[ANSWERS_TXT] = ExpectedFile(sessions)
    /\ pc = "format2" =>
          \A i \in 1..Len(sessions.keys) :
              prompts[i] = ExpectedFinalPrompt(sessions.map[sessions.keys[i]])
    /\ (pc = "start" /\ ANSWERS_FINAL_TXT \in DOMAIN files) =>
          files[ANSWERS_FINAL_TXT] = ExpectedFile(sessions)

\* answers_final.txt was written for two sessions with final answers
C8_Witness ==
    /\ pc = "start"
    /\ ANSWERS_FINAL_TXT \in DOMAIN files
    /\ Len(sessions.keys) = 2
    /\ \A k \in DOMAIN sessions.map : Len(sessions.map[k]["final_answers"]) >= 1

\* the i-th session got, under `field`, the candidates of the i-th result, in
\* order, and that result answers the prompt whose user turn is `text`
Received(i, field, text) ==
    LET session == sessions.map[sessions.keys[i]]
        result == raw_answers[i]
    IN  /\ result.prompt = TEXT_BOS \o TEXT_OPEN \o text \o TEXT_CLOSE_END
        /\ Len(session[field]) = Len(result.outputs)
        /\ \A j \in 1..Len(result.outputs) : session[field][j] = result.outputs[j].text

\* C9: after each round the i-th session of the store holds exactly the
\* candidates, in order, that the engine returned for the prompt built from
\* that session.
C9_CandidatesMatchSession ==
    /\ pc = "format1" =>
          /\ Len(raw_answers) = Len(sessions.keys)
          /\ \A i \in 1..Len(sessions.keys) :
                Received(i, "answers", sessions.map[sessions.keys[i]]["question_formatted"])
    /\ pc = "format2" =>
          /\ Len(raw_answers) = Len(sessions.keys)
          /\ \A i \in 1..Len(sessions.keys) :
                Received(i, "final_answers",
                         sessions.map[sessions.keys[i]]["formatted_output"]
                         \o NEWLINE \o Rep("~", 10) \o FINAL_INSTRUCTION)

\* round 2 returned two candidates for each of two sessions
C9_Witness ==
    /\ pc = "format2"
    /\ Len(sessions.keys) = 2
    /\ \A k \in DOMAIN sessions.map :
          Len(sessions.map[k]["final_answers"]) = 2 /\ Len(sessions.map[k]["answers"]) = 2

\* C10: the step in which the generation call of a round raises changes no
\* session and no file and ends the driver with the error; once it has ended,
\* no step runs.
C10_FailureFailsWholeRound ==
    /\ [](pc = "crashed" <=> exc # "none")
    /\ [][/\ pc # "crashed"
          /\ exc' = "EngineError" =>
                /\ pc \in {"round1", "round2"}
                /\ pc' = "crashed"
                /\ sessions' = sessions
                /\ files' = files]_vars

\* round 2 failed: the driver has ended with the round-1 results in place
C10_Witness ==
    /\ pc = "crashed"
    /\ exc = "EngineError"
    /\ Len(sessions.keys) = 2
    /\ \A k \in DOMAIN sessions.map :
          /\ "answers" \in DOMAIN sessions.map[k]
          /\ "final_answers" \notin DOMAIN sessions.map[k]

====
